---- MODULE Spec2Model ----
(***************************************************************************)
(* Model of the AI incident assistant: the interactive client              *)
(* (src/mcp_client/client.py: main loop + LangGraph workflow               *)
(* resolver -> confirmation -> escalation -> END) and the MCP tool server  *)
(* (src/mcp_server/server.py: the two searches, create_incident and        *)
(* email_send_mock) over a shared incident table.                          *)
(*                                                                         *)
(* Strings that the code inspects character by character (the query, the   *)
(* incident number) are sequences of one-character strings.  Optional[T]   *)
(* values are sequences of length 0 (None) or 1.                           *)
(***************************************************************************)
EXTENDS Integers, Sequences, FiniteSets, TLC

\* ---------------------------------------------------------------- bounds
\* Total number of workflow runs started, over all sessions.
MaxRuns == 2
\* Last clock tick the model lets the wall clock reach.
MaxClock == 2

\* Clock ticks per wall-clock second: strftime('%Y%m%d%H%M%S') truncates to
\* the second, isoformat() keeps the sub-second part.
TicksPerSecond == 2

\* Client processes sharing one MCP server / one incident table.
Sessions == {"s1", "s2"}

\* ---------------------------------------------------------------- text
None == <<>>

Some(x) == <<x>>

UpperChars == <<"E", "X", "I", "T", "Q", "U", "V", "P", "N">>

LowerChars == <<"e", "x", "i", "t", "q", "u", "v", "p", "n">>

\* str.lower() on one character.
LowerChar(c) ==
    IF \E i \in 1..Len(UpperChars) : UpperChars[i] = c
    THEN LowerChars[CHOOSE i \in 1..Len(UpperChars) : UpperChars[i] = c]
    ELSE c

\* str.lower()
Lower(str) == [i \in 1..Len(str) |-> LowerChar(str[i])]

\* What the user may type at "Describe your IT issue".
Queries ==
    { <<"e","x","i","t">>, <<"E","X","I","T">>, <<"Q","u","i","t">>,
      <<"e","x","i","t","s">> }

ExitWords == { <<"e","x","i","t">>, <<"q","u","i","t">> }

\* Mutant: the exit test without .lower().
IsExitCaseSensitive(q) == q \in ExitWords

\* client.py:205  user_query.lower() in ("exit", "quit")
IsExit(q) == Lower(q) \in ExitWords

\* ---------------------------------------------------------------- clock
DigitChars == <<"0", "1", "2", "3", "4", "5", "6", "7", "8", "9">>

Digit(n) == DigitChars[n + 1]

\* The 14 characters YYYYMMDDHHMMSS of the second sec after 2024-01-01 12:00:00
\* (the model never leaves that minute).
StampOfSecond(sec) ==
    <<"2","0","2","4","0","1","0","1","1","2","0","0">>
        \o <<Digit(sec \div 10), Digit(sec % 10)>>

\* datetime.now().strftime('%Y%m%d%H%M%S') at tick t: truncates to the second.
strftime(t) == StampOfSecond(t \div TicksPerSecond)

\* datetime.now().isoformat() at tick t: the second and the sub-second part.
isoformat(t) == [sec |-> t \div TicksPerSecond, frac |-> t % TicksPerSecond]

\* client.py:147  f"INC{...strftime(...)}"
IncidentNumber(t) == <<"I", "N", "C">> \o strftime(t)

\* ---------------------------------------------------------------- server
\* server.py:60
STOPWORDS ==
    { <<"t","h","e">>, <<"i","s">>, <<"a">>, <<"a","n">>, <<"t","o">>,
      <<"f","o","r">>, <<"w","i","t","h">>, <<"a","n","d">>, <<"o","r">>,
      <<"w","h","a","t">>, <<"d","o">>, <<"i">>, <<"m","y">>, <<"o","n">>,
      <<"h","o","w">>, <<"o","f">> }

IsSpace(c) == c = " "

\* Positions i where a whitespace-delimited fragment of str starts.
FragmentStarts(str) ==
    { i \in 1..Len(str) : ~IsSpace(str[i]) /\ (i = 1 \/ IsSpace(str[i - 1])) }

\* The fragment of str starting at i (up to the next whitespace).
FragmentAt(str, i) ==
    LET stops == { j \in i..Len(str) : IsSpace(str[j]) }
        last  == IF stops = {} THEN Len(str)
                 ELSE (CHOOSE j \in stops : \A k \in stops : j <= k) - 1
    IN  SubSeq(str, i, last)

RECURSIVE SplitFrom(_, _)
SplitFrom(str, i) ==
    LET starts == { j \in FragmentStarts(str) : j >= i }
    IN  IF starts = {} THEN <<>>
        ELSE LET j == CHOOSE j \in starts : \A k \in starts : j <= k
             IN  <<FragmentAt(str, j)>> \o SplitFrom(str, j + 1)

\* str.split(): the whitespace-delimited fragments, in order.
Split(str) == SplitFrom(str, 1)

\* Mutant: the stopword test on the fragment as typed, without .lower().
KeywordsStopwordsAsTyped(str) ==
    LET kept == SelectSeq(Split(str), LAMBDA f : f # <<>> /\ f \notin STOPWORDS)
    IN  [i \in 1..Len(kept) |-> Lower(kept[i])]

\* server.py:73-77: the keyword list search_knowledge_base derives.
Keywords(str) ==
    SelectSeq([i \in 1..Len(Split(str)) |-> Lower(Split(str)[i])],
              LAMBDA k : k # <<>> /\ k \notin STOPWORDS)

RECURSIVE Deduplicated(_)
Deduplicated(seq) ==
    IF seq = <<>> THEN <<>>
    ELSE LET front == Deduplicated(SubSeq(seq, 1, Len(seq) - 1))
         IN  IF \E i \in 1..(Len(seq) - 1) : seq[i] = seq[Len(seq)]
             THEN front ELSE Append(front, seq[Len(seq)])

\* Mutant: each keyword once.
IncidentKeywordsDeduplicated(str) ==
    Deduplicated(
        SelectSeq([i \in 1..Len(Split(str)) |-> Lower(Split(str)[i])],
                  LAMBDA k : k # <<>> /\ k \notin STOPWORDS))

\* server.py:115-119: the keyword list search_incidents derives (the same
\* comprehension, written a second time).
IncidentKeywords(str) ==
    SelectSeq([i \in 1..Len(Split(str)) |-> Lower(Split(str)[i])],
              LAMBDA k : k # <<>> /\ k \notin STOPWORDS)

\* server.py:82 / 124: f"%{kw}%" for every keyword.
LikePatterns(keywords) ==
    [i \in 1..Len(keywords) |-> <<"%">> \o keywords[i] \o <<"%">>]

\* server.py:68-83: the LIKE parameters search_knowledge_base builds; a
\* missing or empty short_description_contains gives none.
KbLikeParams(query) ==
    IF query = None \/ query[1] = <<>> THEN <<>>
    ELSE LikePatterns(Keywords(query[1]))

\* server.py:111-125: the same for search_incidents.
IncidentLikeParams(query) ==
    IF query = None \/ query[1] = <<>> THEN <<>>
    ELSE LikePatterns(IncidentKeywords(query[1]))

\* needle occurs in hay as a contiguous substring.
Contains(hay, needle) ==
    \E i \in 1..(Len(hay) - Len(needle) + 1) :
        SubSeq(hay, i, i + Len(needle) - 1) = needle

\* SQL `str LIKE pat` from position i of str and j of pat: % stands for any
\* run of characters, _ for any one character, anything else for itself.
\* (The parameters are bound as values; nothing escapes % or _ in a keyword.)
RECURSIVE LikeFrom(_, _, _, _)
LikeFrom(str, i, pat, j) ==
    IF j > Len(pat) THEN i > Len(str)
    ELSE IF pat[j] = "%"
         THEN \E k \in i..(Len(str) + 1) : LikeFrom(str, k, pat, j + 1)
         ELSE IF i > Len(str) THEN FALSE
              ELSE IF pat[j] = "_" THEN LikeFrom(str, i + 1, pat, j + 1)
                   ELSE str[i] = pat[j] /\ LikeFrom(str, i + 1, pat, j + 1)

Like(str, pat) == LikeFrom(str, 1, pat, 1)

\* server.py:78-85 / 120-127: the WHERE clause applied to one row: no clause
\* without keywords, else LOWER(short_description) LIKE p1 OR ... LIKE pn.
WhereMatches(row, patterns) ==
    IF patterns = <<>>
    THEN TRUE
    ELSE \E i \in 1..Len(patterns) :
            Like(Lower(row.short_description), patterns[i])

Min(a, b) == IF a <= b THEN a ELSE b

\* All answers "SELECT ... WHERE ... ORDER BY key DESC LIMIT limit" may give:
\* rows with equal keys come in an order the database chooses.
UpdatedKey(row) == row.updated

OpenedKey(row) == row.opened.sec * TicksPerSecond + row.opened.frac

\* The value ORDER BY compares, for the column named in the statement.
OrderKey(row, column) ==
    IF column = "updated" THEN UpdatedKey(row) ELSE OpenedKey(row)

\* Mutant: the statement without its LIMIT.
SelectOrderedNoLimit(table, patterns, limit, column) ==
    LET rows == { r \in table : WhereMatches(r, patterns) }
        n    == Cardinality(rows)
    IN  { p \in [1..n -> rows] :
            /\ \A i, j \in 1..n : i # j => p[i] # p[j]
            /\ \A i, j \in 1..n :
                 i < j => OrderKey(p[i], column) >= OrderKey(p[j], column) }

SelectOrdered(table, patterns, limit, column) ==
    LET rows == { r \in table : WhereMatches(r, patterns) }
        n    == Cardinality(rows)
        perms == { p \in [1..n -> rows] :
                     /\ \A i, j \in 1..n : i # j => p[i] # p[j]
                     /\ \A i, j \in 1..n :
                          i < j => OrderKey(p[i], column) >= OrderKey(p[j], column) }
    IN  { SubSeq(p, 1, Min(limit, n)) : p \in perms }

\* server.py:65-102
search_knowledge_base(table, query, limit) ==
    SelectOrdered(table, KbLikeParams(query), limit, "updated")

\* server.py:108-144
search_incidents(table, query, limit) ==
    SelectOrdered(table, IncidentLikeParams(query), limit, "opened")

\* The incidents table rejects a row whose number is already present
\* (unique key on number).
DuplicateKey(table, number) == \E r \in table : r.number = number

\* Mutant: REPLACE INTO instead of INSERT INTO.
create_incident_replace(table, row, dbUp) ==
    IF ~dbUp THEN [table |-> table, status |-> "unavailable"]
    ELSE [table  |-> { r \in table : r.number # row.number } \cup {row},
          status |-> "success"]

\* server.py:150-171: the INSERT; an exception inside the tool (duplicate key,
\* pool/connection failure) leaves the table as it was.
create_incident(table, row, dbUp) ==
    IF ~dbUp THEN [table |-> table, status |-> "unavailable"]
    ELSE IF DuplicateKey(table, row.number)
         THEN [table |-> table, status |-> "duplicate"]
         ELSE [table |-> table \cup {row}, status |-> "success"]

\* server.py:177-211: the mail the mock records.
email_send_mock(to, subject, body) ==
    [to |-> to, cc |-> <<>>, bcc |-> <<>>, subject |-> subject, body |-> body]

\* ---------------------------------------------------------------- client
\* The knowledge_base table (read-only for this program).
KnowledgeBase ==
    { [number |-> "KB1", version |-> 1, short_description |-> <<"V","P","N">>,
       author |-> "amy", category |-> "net", workflow |-> "pub", updated |-> 1],
      [number |-> "KB2", version |-> 1, short_description |-> <<"e","x","i","t","s">>,
       author |-> "bob", category |-> "hw", workflow |-> "pub", updated |-> 1] }

\* What the user may type at the three incident-detail prompts.
ShortDescs == { <<"v","p","n">>, <<"V","P","N"," ","x">> }

Descs == { <<"d">> }

Assignees == { <<>> }

\* client.py:29-36 and 209: AgentState(user_query=q); state.get(k) of a key
\* that was never set is None.
AgentState(q) ==
    [ user_query |-> q, kb_results |-> None, incident_results |-> None,
      user_feedback |-> None, user_create_incident |-> None,
      incident_number |-> None, final_response |-> None ]

\* The value of `state` in main() before the first query is read.
NoState == AgentState(<<>>)

\* Locals of the node that is executing (resolver_node / escalation_node).
NoLocal ==
    [ kb_results |-> None, incident_results |-> None,
      incident_number |-> <<>>, opened |-> isoformat(0),
      short_description |-> <<>>, description |-> <<>>, assigned_to |-> <<>> ]

\* client.py:190
entry_point == "resolver"

\* Mutant: an edge resolver -> escalation that skips the confirmation node.
edges_skip_confirmation ==
    [ resolver |-> "escalation", confirmation |-> "escalation", escalation |-> "END" ]

\* client.py:191-193
edges ==
    [ resolver |-> "confirmation", confirmation |-> "escalation", escalation |-> "END" ]

\* Where execution of a node starts.
NodeStart(n) ==
    CASE n = "resolver"     -> "search_kb"
      [] n = "confirmation" -> "confirm"
      [] n = "escalation"   -> "escalate"
      [] n = "END"          -> "end"

\* Mutant: `x.structuredContent or {}` - a tool error reads as an empty answer.
structured_result_lenient(res) ==
    IF res.structuredContent = None
    THEN [raises |-> FALSE, value |-> <<>>]
    ELSE [raises |-> FALSE, value |-> res.structuredContent[1]]

\* client.py:55-56: res.structuredContent.get("result", []).  The result of a
\* failed tool call carries isError and no structuredContent, so .get is
\* applied to None and raises AttributeError.
structured_result(res) ==
    IF res.structuredContent = None
    THEN [raises |-> TRUE, value |-> <<>>]
    ELSE [raises |-> FALSE, value |-> res.structuredContent[1]]

\* Mutant: the first test looks at user_feedback only.
escalation_branch_feedback_only(st) ==
    IF st.user_feedback = Some("no") THEN "create" ELSE "resolved"

\* client.py:141, 176, 178: which branch escalation_node takes.
escalation_branch(st) ==
    IF st.user_feedback = Some("no") /\ st.user_create_incident = Some("yes")
    THEN "create"
    ELSE IF st.user_feedback = Some("no") THEN "unresolved"
    ELSE "resolved"

\* client.py:174, 177, 179
CreatedResponse(number) == <<"Incident ", number, " created.">>

UnresolvedResponse == <<"No incident created. Issue remains unresolved.">>

ResolvedResponse == <<"Glad it helped! No escalation needed.">>

\* The text gemini returns (opaque to the program).
SummaryText == <<"summary">>

\* Outcome of one tool call as the environment decides it: the call works,
\* the tool raises on the server (database unreachable), or the transport
\* between client and server fails.
Faults == {"none", "tool", "transport"}

VARIABLES
    pc,          \* per session: where main() / the running node stands
    node,        \* per session: the graph node being executed
    user_query,  \* per session: main()'s user_query
    state,       \* per session: the AgentState of the current/last run
    local,       \* per session: locals of the executing node
    trace,       \* per session: nodes entered by the current run, in order
    shown,       \* per session: what this iteration printed / asked
    calls,       \* per session: external calls of this iteration, with outcome
    incidents,   \* the incident.incidents table
    outbox,      \* mails the mock has sent
    now,         \* the wall clock, in ticks
    started,     \* workflow runs started so far
    kbTable,     \* the knowledge_base.knowledge_base table
    served       \* the last search request served to a direct MCP client

vars == <<pc, node, user_query, state, local, trace, shown, calls,
          incidents, outbox, now, started, kbTable, served>>

Init ==
    /\ pc = [s \in Sessions |-> "prompt"]
    /\ node = [s \in Sessions |-> "none"]
    /\ user_query = [s \in Sessions |-> <<>>]
    /\ state = [s \in Sessions |-> NoState]
    /\ local = [s \in Sessions |-> NoLocal]
    /\ trace = [s \in Sessions |-> <<>>]
    /\ shown = [s \in Sessions |-> {}]
    /\ calls = [s \in Sessions |-> <<>>]
    /\ incidents = {}
    /\ outbox = {}
    /\ now = 0
    /\ started = 0
    /\ kbTable = KnowledgeBase
    /\ served = None

\* ---------------------------------------------------------------- actions
\* An exception leaves the node, app.ainvoke and main(): nothing in
\* client.py:200-214 catches it, so the process ends with a traceback and
\* its variables are gone.  `call` is recorded as the iteration's last call.
Raise(s, call) ==
    /\ pc' = [pc EXCEPT ![s] = "crashed"]
    /\ calls' = [calls EXCEPT ![s] = Append(@, call)]
    /\ local' = [local EXCEPT ![s] = NoLocal]
    /\ state' = [state EXCEPT ![s] = NoState]
    /\ user_query' = [user_query EXCEPT ![s] = <<>>]

\* Mutant: the state of the previous run is kept and given the new query.
NewRunStateReused(previous, q) == [previous EXCEPT !.user_query = q]

\* client.py:209: state = AgentState(user_query=user_query); whatever `state`
\* held before is dropped.
NewRunState(previous, q) == AgentState(q)

\* client.py:203-211: one pass of the while loop up to the start of the run.
Ask(s) ==
    /\ pc[s] = "prompt"
    /\ \E q \in Queries :
        /\ user_query' = [user_query EXCEPT ![s] = q]
        /\ IF IsExit(q)
           THEN /\ pc' = [pc EXCEPT ![s] = "exited"]
                /\ shown' = [shown EXCEPT ![s] = {"exiting"}]
                /\ state' = [state EXCEPT ![s] = NoState]
                /\ UNCHANGED <<node, trace, started>>
           ELSE /\ started < MaxRuns
                /\ started' = started + 1
                /\ state' = [state EXCEPT ![s] = NewRunState(state[s], q)]
                /\ node' = [node EXCEPT ![s] = entry_point]
                /\ pc' = [pc EXCEPT ![s] = NodeStart(entry_point)]
                /\ trace' = [trace EXCEPT ![s] = <<entry_point>>]
                /\ shown' = [shown EXCEPT ![s] = {"running"}]
    /\ UNCHANGED <<local, calls, incidents, outbox, now>>
    /\ UNCHANGED <<kbTable, served>>

\* client.py:45-48: await call_tool_mcp("search_knowledge_base", ...).
SearchKb(s) ==
    /\ pc[s] = "search_kb"
    /\ \E fault \in Faults :
        CASE fault = "transport" ->
                /\ Raise(s, <<"search_knowledge_base", "transport">>)
           [] fault = "tool" ->
                /\ local' = [local EXCEPT ![s].kb_results = Some([structuredContent |-> None])]
                /\ calls' = [calls EXCEPT ![s] = Append(@, <<"search_knowledge_base", "error">>)]
                /\ pc' = [pc EXCEPT ![s] = "search_inc"]
                /\ UNCHANGED <<state, user_query>>
           [] fault = "none" ->
                /\ \E r \in search_knowledge_base(kbTable, Some(state[s].user_query), 5) :
                     local' = [local EXCEPT ![s].kb_results = Some([structuredContent |-> Some(r)])]
                /\ calls' = [calls EXCEPT ![s] = Append(@, <<"search_knowledge_base", "success">>)]
                /\ pc' = [pc EXCEPT ![s] = "search_inc"]
                /\ UNCHANGED <<state, user_query>>
    /\ UNCHANGED <<node, trace, shown, incidents, outbox, now, started>>
    /\ UNCHANGED <<kbTable, served>>

\* client.py:49-52: await call_tool_mcp("search_incidents", ...).
SearchInc(s) ==
    /\ pc[s] = "search_inc"
    /\ \E fault \in Faults :
        CASE fault = "transport" ->
                /\ Raise(s, <<"search_incidents", "transport">>)
           [] fault = "tool" ->
                /\ local' = [local EXCEPT ![s].incident_results = Some([structuredContent |-> None])]
                /\ calls' = [calls EXCEPT ![s] = Append(@, <<"search_incidents", "error">>)]
                /\ pc' = [pc EXCEPT ![s] = "summarize"]
                /\ UNCHANGED <<state, user_query>>
           [] fault = "none" ->
                /\ \E r \in search_incidents(incidents, Some(state[s].user_query), 5) :
                     local' = [local EXCEPT ![s].incident_results = Some([structuredContent |-> Some(r)])]
                /\ calls' = [calls EXCEPT ![s] = Append(@, <<"search_incidents", "success">>)]
                /\ pc' = [pc EXCEPT ![s] = "summarize"]
                /\ UNCHANGED <<state, user_query>>
    /\ UNCHANGED <<node, trace, shown, incidents, outbox, now, started>>
    /\ UNCHANGED <<kbTable, served>>

\* client.py:55-122: extract both answers, print the tables, ask gemini,
\* print the suggestion, return the new state; then the edge out of resolver.
Summarize(s) ==
    /\ pc[s] = "summarize"
    /\ LET kb  == structured_result(local[s].kb_results[1])
           inc == structured_result(local[s].incident_results[1])
       IN  IF kb.raises \/ inc.raises
           THEN /\ Raise(s, <<"structuredContent.get", "AttributeError">>)
                /\ UNCHANGED <<node, trace, shown>>
           ELSE \E gen \in {"success", "raise"} :
                  IF gen = "raise"
                  THEN /\ Raise(s, <<"generate_content", "raise">>)
                       /\ shown' = [shown EXCEPT ![s] = @ \cup {"kb_table", "inc_table"}]
                       /\ UNCHANGED <<node, trace>>
                  ELSE /\ calls' = [calls EXCEPT ![s] = Append(@, <<"generate_content", "success">>)]
                       /\ shown' = [shown EXCEPT ![s] =
                                      @ \cup {"kb_table", "inc_table", "suggested_fix"}]
                       /\ state' = [state EXCEPT ![s].kb_results = Some(kb.value),
                                                 ![s].incident_results = Some(inc.value),
                                                 ![s].final_response = Some(SummaryText)]
                       /\ local' = [local EXCEPT ![s] = NoLocal]
                       /\ node' = [node EXCEPT ![s] = edges[node[s]]]
                       /\ pc' = [pc EXCEPT ![s] = NodeStart(edges[node[s]])]
                       /\ trace' = [trace EXCEPT ![s] = Append(@, edges[node[s]])]
                       /\ UNCHANGED user_query
    /\ UNCHANGED <<incidents, outbox, now, started>>
    /\ UNCHANGED <<kbTable, served>>

\* Mutant: the second question is asked whatever the first answer was.
AsksCreateAlways(feedback) == TRUE

\* client.py:130: the second question is asked when the first answer is "no".
AsksCreate(feedback) == feedback = "no"

\* client.py:128-134: confirmation_node, then the edge out of it.
Confirm(s) ==
    /\ pc[s] = "confirm"
    /\ \E feedback \in {"yes", "no"} :
         IF AsksCreate(feedback)
         THEN \E create \in {"yes", "no"} :
                /\ state' = [state EXCEPT ![s].user_feedback = Some(feedback),
                                          ![s].user_create_incident = Some(create)]
                /\ shown' = [shown EXCEPT ![s] = @ \cup {"ask_resolved", "ask_create"}]
         ELSE /\ state' = [state EXCEPT ![s].user_feedback = Some(feedback),
                                        ![s].user_create_incident = Some("no")]
              /\ shown' = [shown EXCEPT ![s] = @ \cup {"ask_resolved"}]
    /\ node' = [node EXCEPT ![s] = edges[node[s]]]
    /\ pc' = [pc EXCEPT ![s] = NodeStart(edges[node[s]])]
    /\ trace' = [trace EXCEPT ![s] = Append(@, edges[node[s]])]
    /\ UNCHANGED <<user_query, local, calls, incidents, outbox, now, started>>
    /\ UNCHANGED <<kbTable, served>>

\* client.py:140-150 and 176-179: the branch of escalation_node.  In the
\* create branch the three details are asked and the clock is read twice
\* (number, then opened); the clock may move on between the two reads.
Escalate(s) ==
    /\ pc[s] = "escalate"
    /\ LET branch == escalation_branch(state[s])
       IN  IF branch = "create"
           THEN /\ \E sd \in ShortDescs, d \in Descs, a \in Assignees, dt \in {0, 1} :
                     /\ now + dt <= MaxClock
                     /\ now' = now + dt
                     /\ local' = [local EXCEPT ![s] =
                                    [ @ EXCEPT !.incident_number = IncidentNumber(now),
                                               !.opened = isoformat(now + dt),
                                               !.short_description = sd,
                                               !.description = d,
                                               !.assigned_to = a ]]
                /\ shown' = [shown EXCEPT ![s] = @ \cup {"ask_details", "creating"}]
                /\ pc' = [pc EXCEPT ![s] = "create"]
                /\ UNCHANGED <<node, state, trace>>
           ELSE /\ state' = [state EXCEPT ![s].final_response =
                                IF branch = "unresolved" THEN Some(UnresolvedResponse)
                                                         ELSE Some(ResolvedResponse)]
                /\ node' = [node EXCEPT ![s] = edges[node[s]]]
                /\ pc' = [pc EXCEPT ![s] = NodeStart(edges[node[s]])]
                /\ trace' = [trace EXCEPT ![s] = Append(@, edges[node[s]])]
                /\ UNCHANGED <<local, shown, now>>
    /\ UNCHANGED <<user_query, calls, incidents, outbox, started>>
    /\ UNCHANGED <<kbTable, served>>

\* client.py:152-162: the row sent to create_incident (`assigned_to or None`).
IncidentRow(l) ==
    [ number |-> l.incident_number, opened |-> l.opened,
      short_description |-> l.short_description, description |-> l.description,
      state |-> "New",
      assigned_to |-> IF l.assigned_to = <<>> THEN None ELSE Some(l.assigned_to) ]

\* Mutant: a failed insert is tried again.
AfterCreateRetry(status) == IF status = "success" THEN "notify" ELSE "create"

\* client.py:152-164: whatever create_incident answered, the next statement is
\* the notification call.
AfterCreate(status) == "notify"

\* client.py:152-162: await call_tool_mcp("create_incident", ...).  call_tool_mcp
\* hands back the tool's result, error or not, and the code drops it.
Create(s) ==
    /\ pc[s] = "create"
    /\ \E fault \in Faults :
         IF fault = "transport"
         THEN /\ Raise(s, <<"create_incident", "transport">>)
              /\ UNCHANGED incidents
         ELSE LET r == create_incident(incidents, IncidentRow(local[s]), fault = "none")
              IN  /\ incidents' = r.table
                  /\ calls' = [calls EXCEPT ![s] = Append(@, <<"create_incident", r.status>>)]
                  /\ pc' = [pc EXCEPT ![s] = AfterCreate(r.status)]
                  /\ UNCHANGED <<local, state, user_query>>
    /\ UNCHANGED <<node, trace, shown, outbox, now, started>>
    /\ UNCHANGED <<kbTable, served>>

\* client.py:168
NotificationSubject(number) == <<"New Incident ", number>>

\* Mutant: the two texts run together, without the blank line.
NotificationBodyNoBlankLine(short_description, description) ==
    <<"Issue reported: ", short_description, description>>

\* client.py:169
NotificationBody(short_description, description) ==
    <<"Issue reported: ", short_description, "\n\n", description>>

\* client.py:164-174: await call_tool_mcp("email_send_mock", ...), the success
\* panel, the returned state; then the edge out of escalation.
Notify(s) ==
    /\ pc[s] = "notify"
    /\ \E fault \in Faults :
         IF fault = "transport"
         THEN /\ Raise(s, <<"email_send_mock", "transport">>)
              /\ UNCHANGED <<node, trace, shown, outbox>>
         ELSE /\ IF fault = "tool"
                 THEN /\ outbox' = outbox
                      /\ calls' = [calls EXCEPT ![s] = Append(@, <<"email_send_mock", "error">>)]
                 ELSE /\ outbox' = outbox \cup
                            { email_send_mock(
                                <<"support@example.com">>,
                                NotificationSubject(local[s].incident_number),
                                NotificationBody(local[s].short_description,
                                                 local[s].description)) }
                      /\ calls' = [calls EXCEPT ![s] = Append(@, <<"email_send_mock", "success">>)]
              /\ shown' = [shown EXCEPT ![s] = @ \cup {"created_and_notified"}]
              /\ state' = [state EXCEPT
                             ![s].incident_number = Some(local[s].incident_number),
                             ![s].final_response =
                                 Some(CreatedResponse(local[s].incident_number))]
              /\ local' = [local EXCEPT ![s] = NoLocal]
              /\ node' = [node EXCEPT ![s] = edges[node[s]]]
              /\ pc' = [pc EXCEPT ![s] = NodeStart(edges[node[s]])]
              /\ trace' = [trace EXCEPT ![s] = Append(@, edges[node[s]])]
              /\ UNCHANGED user_query
    /\ UNCHANGED <<incidents, now, started>>
    /\ UNCHANGED <<kbTable, served>>

\* client.py:211-214: ainvoke returns the final state, main() prints its
\* final_response and goes back to the prompt.  The iteration is over: its
\* record of nodes and calls is closed.
Deliver(s) ==
    /\ pc[s] = "end"
    /\ shown' = [shown EXCEPT ![s] = @ \cup {"final_response"}]
    /\ pc' = [pc EXCEPT ![s] = "prompt"]
    /\ node' = [node EXCEPT ![s] = "none"]
    /\ trace' = [trace EXCEPT ![s] = <<>>]
    /\ calls' = [calls EXCEPT ![s] = <<>>]
    /\ UNCHANGED <<user_query, state, local, incidents, outbox, now, started>>
    /\ UNCHANGED <<kbTable, served>>

\* The wall clock moves on.
Tick ==
    /\ now < MaxClock
    /\ now' = now + 1
    /\ UNCHANGED <<pc, node, user_query, state, local, trace, shown, calls,
                   incidents, outbox, started>>
    /\ UNCHANGED <<kbTable, served>>

Next ==
    \/ \E s \in Sessions : Ask(s)
    \/ \E s \in Sessions : SearchKb(s)
    \/ \E s \in Sessions : SearchInc(s)
    \/ \E s \in Sessions : Summarize(s)
    \/ \E s \in Sessions : Confirm(s)
    \/ \E s \in Sessions : Escalate(s)
    \/ \E s \in Sessions : Create(s)
    \/ \E s \in Sessions : Notify(s)
    \/ \E s \in Sessions : Deliver(s)
    \/ Tick

Spec == Init /\ [][Next]_vars

\* ---------------------------------------------------------------- the search tools
\* The two search tools as any MCP client may call them: over tables with any
\* of the rows below, with any of the query texts below (or none) and any
\* limit from 1 to MaxLimit.
MaxLimit == 2

KbRows ==
    { [number |-> "KB1", version |-> 1, short_description |-> <<"V","P","N">>,
       author |-> "amy", category |-> "net", workflow |-> "pub", updated |-> 2],
      [number |-> "KB2", version |-> 1, short_description |-> <<"v","p","n"," ","x">>,
       author |-> "bob", category |-> "net", workflow |-> "pub", updated |-> 1],
      [number |-> "KB3", version |-> 1, short_description |-> <<"e","x","i","t","s">>,
       author |-> "bob", category |-> "hw", workflow |-> "pub", updated |-> 1] }

IncidentRows ==
    { [number |-> <<"I","N","C">> \o StampOfSecond(0), opened |-> [sec |-> 0, frac |-> 0],
       short_description |-> <<"v","p","n">>, description |-> <<"d">>,
       state |-> "New", assigned_to |-> None],
      [number |-> <<"I","N","C">> \o StampOfSecond(1), opened |-> [sec |-> 1, frac |-> 0],
       short_description |-> <<"V","P","N"," ","x">>, description |-> <<"d">>,
       state |-> "New", assigned_to |-> None],
      [number |-> <<"I","N","C">> \o StampOfSecond(2), opened |-> [sec |-> 1, frac |-> 0],
       short_description |-> <<"e","x","i","t","s">>, description |-> <<"d">>,
       state |-> "Closed", assigned_to |-> None] }

\* Values of short_description_contains (None: the parameter left out).
ToolQueries ==
    { None,
      Some(<<>>),
      Some(<<" ">>),
      Some(<<"T","h","e">>),
      Some(<<"i"," "," ","a">>),
      Some(<<"v","p","n">>),
      Some(<<" ","x"," ","V","P","N">>),
      Some(<<"v","p","n"," ","t","h","e"," ","v","p","n">>),
      Some(<<"_">>) }

SearchInit ==
    /\ pc = [s \in Sessions |-> "prompt"]
    /\ node = [s \in Sessions |-> "none"]
    /\ user_query = [s \in Sessions |-> <<>>]
    /\ state = [s \in Sessions |-> NoState]
    /\ local = [s \in Sessions |-> NoLocal]
    /\ trace = [s \in Sessions |-> <<>>]
    /\ shown = [s \in Sessions |-> {}]
    /\ calls = [s \in Sessions |-> <<>>]
    /\ incidents \in SUBSET IncidentRows
    /\ outbox = {}
    /\ now = 0
    /\ started = 0
    /\ kbTable \in SUBSET KbRows
    /\ served = None

\* server.py:65-102: one call of search_knowledge_base.
ServeSearchKb ==
    /\ \E q \in ToolQueries, limit \in 1..MaxLimit :
         \E r \in search_knowledge_base(kbTable, q, limit) :
            served' = Some([ tool |-> "search_knowledge_base",
                             query |-> q, limit |-> limit,
                             like |-> KbLikeParams(q), result |-> r ])
    /\ UNCHANGED <<pc, node, user_query, state, local, trace, shown, calls,
                   incidents, outbox, now, started, kbTable>>

\* server.py:108-144: one call of search_incidents.
ServeSearchInc ==
    /\ \E q \in ToolQueries, limit \in 1..MaxLimit :
         \E r \in search_incidents(incidents, q, limit) :
            served' = Some([ tool |-> "search_incidents",
                             query |-> q, limit |-> limit,
                             like |-> IncidentLikeParams(q), result |-> r ])
    /\ UNCHANGED <<pc, node, user_query, state, local, trace, shown, calls,
                   incidents, outbox, now, started, kbTable>>

SearchNext == ServeSearchKb \/ ServeSearchInc

SpecSearch == SearchInit /\ [][SearchNext]_vars

\* ---------------------------------------------------------------- properties
Last(seq) == seq[Len(seq)]

\* Positions in this iteration's call record at which `tool` was called.
CallsOf(s, tool) == { i \in 1..Len(calls[s]) : calls[s][i][1] = tool }

\* The create_incident call of this iteration did not insert.
InsertFailed(s) ==
    \E i \in CallsOf(s, "create_incident") : calls[s][i][2] # "success"

InsertSucceeded(s) ==
    \E i \in CallsOf(s, "create_incident") : calls[s][i][2] = "success"

Path == <<"resolver", "confirmation", "escalation", "END">>

\* C1: a run enters resolver, confirmation, escalation, END in that order and
\* each once: at every moment the nodes entered so far are a prefix of that
\* path, and a run that has completed has entered all four.
C1_LinearPath ==
    \A s \in Sessions :
        /\ Len(trace[s]) <= Len(Path)
        /\ \A i \in 1..Len(trace[s]) : trace[s][i] = Path[i]
        /\ pc[s] = "end" => trace[s] = Path

C1_Witness == \E s \in Sessions : pc[s] = "end" /\ trace[s] = Path

\* C2: when the create_incident insert failed, the run does not show the
\* "created successfully" panel, does not set final_response to
\* "Incident <number> created.", and does not complete as if nothing happened.
C2_NoCreatedReportAfterFailedInsert ==
    \A s \in Sessions :
        InsertFailed(s) =>
            /\ "created_and_notified" \notin shown[s]
            /\ state[s].incident_number = None
            /\ pc[s] # "end"

\* C3: the branch of Escalate is decided by (user_feedback, user_create_incident)
\* alone: the insert is attempted exactly for (no, yes), and a completed run
\* ends with the response of its pair.
C3_BranchByAnswers ==
    \A s \in Sessions :
        LET fb == state[s].user_feedback
            ci == state[s].user_create_incident
        IN  /\ pc[s] \in {"create", "notify"} => fb = Some("no") /\ ci = Some("yes")
            /\ pc[s] = "end" =>
                 /\ (CallsOf(s, "create_incident") # {}) <=> (fb = Some("no") /\ ci = Some("yes"))
                 /\ fb = Some("no") /\ ci = Some("yes") =>
                        /\ state[s].incident_number # None
                        /\ state[s].final_response =
                               Some(<<"Incident ", state[s].incident_number[1], " created.">>)
                 /\ fb = Some("no") /\ ci # Some("yes") =>
                        state[s].final_response =
                            Some(<<"No incident created. Issue remains unresolved.">>)
                 /\ fb = Some("yes") =>
                        state[s].final_response =
                            Some(<<"Glad it helped! No escalation needed.">>)

C3_Witness ==
    \E s, t \in Sessions :
        /\ pc[s] = "end" /\ pc[t] = "end"
        /\ state[s].user_feedback = Some("no") /\ state[s].user_create_incident = Some("yes")
        /\ state[t].user_feedback = Some("no") /\ state[t].user_create_incident = Some("no")
        /\ state[s].user_query = state[t].user_query

\* C4: a run that failed leaves its session at the query prompt with a failure
\* message shown; the session is never terminated by the failure.
C4_FailureResumesLoop ==
    \A s \in Sessions :
        (calls[s] # <<>> /\ Last(calls[s])[2] \in {"transport", "raise", "AttributeError"})
            => pc[s] = "prompt" /\ "failure_message" \in shown[s]

\* C5: when the insert succeeded and the notification call failed, the run
\* still reports the incident as created and says that support was not notified.
C5_NotificationFailureNonFatal ==
    \A s \in Sessions :
        ( /\ InsertSucceeded(s)
          /\ \E i \in CallsOf(s, "email_send_mock") : calls[s][i][2] # "success" )
            => /\ pc[s] = "end"
               /\ state[s].final_response # None
               /\ state[s].incident_number # None
               /\ "not_notified" \in shown[s]

C6_SameSecondStep ==
    /\ \A r \in incidents : r \in incidents'
    /\ \A s \in Sessions :
         ( /\ pc[s] = "create"
           /\ Len(calls'[s]) = Len(calls[s]) + 1
           /\ Last(calls'[s])[1] = "create_incident"
           /\ \E r \in incidents : r.number = local[s].incident_number )
             => /\ Last(calls'[s])[2] \in {"duplicate", "unavailable", "transport"}
                /\ incidents' = incidents

\* C6: a creation whose generated number is already in the table (a second
\* creation within the same clock second) does not succeed - it is rejected as
\* a duplicate, or fails because the store or the server cannot be reached -
\* and no step changes or removes a record that is already in the table.
C6_NoSilentOverwrite == [][C6_SameSecondStep]_vars

\* One session created an incident and then, in its next run within the same
\* second, had its insert rejected as a duplicate of that incident, whose
\* record still holds the first run's text.
C6_Witness ==
    \E s \in Sessions :
        /\ pc[s] = "notify"
        /\ Last(calls[s]) = <<"create_incident", "duplicate">>
        /\ \A t \in Sessions \ {s} : pc[t] = "prompt" /\ state[t] = NoState
        /\ \E r \in incidents :
             /\ r.number = local[s].incident_number
             /\ r.short_description # local[s].short_description

\* C7: the table never holds two incidents with one number, and no two
\* sessions both report "Incident N created." for the same N.
C7_NoSharedNumber ==
    /\ \A r1, r2 \in incidents : r1.number = r2.number => r1 = r2
    /\ \A s, t \in Sessions :
         ( /\ s # t
           /\ state[s].incident_number # None
           /\ state[t].incident_number # None
           /\ state[s].final_response =
                Some(<<"Incident ", state[s].incident_number[1], " created.">>)
           /\ state[t].final_response =
                Some(<<"Incident ", state[t].incident_number[1], " created.">>) )
             => state[s].incident_number # state[t].incident_number

C8_InsertStep ==
    \A s \in Sessions :
        ( /\ Len(calls'[s]) = Len(calls[s]) + 1
          /\ Last(calls'[s])[1] = "create_incident" )
            => /\ CallsOf(s, "create_incident") = {}
               /\ state[s].user_feedback = Some("no")
               /\ state[s].user_create_incident = Some("yes")

\* C8: whenever a run calls create_incident, it has not called it before in
\* this run, and its answers are user_feedback = no, user_create_incident = yes
\* (so a failed insert is never tried again).
C8_AtMostOnce == [][C8_InsertStep]_vars

\* A run completed after its only insert had failed.
C8_Witness ==
    \E s \in Sessions :
        /\ pc[s] = "end"
        /\ InsertFailed(s)
        /\ Cardinality(CallsOf(s, "create_incident")) = 1

\* A search or the summarization call of this run failed.
ResolveFailed(s) ==
    \E i \in 1..Len(calls[s]) :
        /\ calls[s][i][1] \in {"search_knowledge_base", "search_incidents", "generate_content"}
        /\ calls[s][i][2] # "success"

\* C9: once a search or the summarization call has failed, the run never
\* leaves the resolver (it is on its way to abort or has aborted): no
\* confirmation prompt, no insert, no notification, no final_response shown.
C9_ResolveFailureAborts ==
    \A s \in Sessions :
        ResolveFailed(s) =>
            /\ trace[s] = <<"resolver">>
            /\ pc[s] \in {"search_inc", "summarize", "crashed"}
            /\ shown[s] \cap {"ask_resolved", "ask_create", "ask_details",
                              "created_and_notified", "final_response"} = {}
            /\ CallsOf(s, "create_incident") = {}
            /\ CallsOf(s, "email_send_mock") = {}

\* A run aborted in the resolver because a search tool had answered with an error.
C9_Witness ==
    \E s \in Sessions :
        /\ pc[s] = "crashed"
        /\ Last(calls[s]) = <<"structuredContent.get", "AttributeError">>
        /\ calls[s][1] = <<"search_knowledge_base", "error">>

\* All ways of writing `word` in upper and lower case letters.
CaseVariants(word) ==
    { q \in [1..Len(word) -> {"e","x","i","t","q","u","E","X","I","T","Q","U"}] :
        \A i \in 1..Len(word) :
            \E j \in 1..Len(LowerChars) :
                LowerChars[j] = word[i] /\ q[i] \in {LowerChars[j], UpperChars[j]} }

ExitInputs == CaseVariants(<<"e","x","i","t">>) \cup CaseVariants(<<"q","u","i","t">>)

C10_PromptStep ==
    \A s \in Sessions :
        (pc[s] = "prompt" /\ pc'[s] # "prompt") =>
            IF user_query'[s] \in ExitInputs
            THEN /\ pc'[s] = "exited"
                 /\ calls'[s] = <<>>
                 /\ incidents' = incidents /\ outbox' = outbox
                 /\ started' = started
            ELSE /\ pc'[s] = "search_kb"
                 /\ started' = started + 1
                 /\ trace'[s] = <<"resolver">>

\* C10: at the query prompt, an input that is "exit" or "quit" in any letter
\* case ends the loop with no call made and nothing changed in the store or
\* the outbox; any other input starts exactly one run.
C10_ExitOrRun == [][C10_PromptStep]_vars

\* A session left on "EXIT" while another one, given "exits", is running.
C10_Witness ==
    \E s, t \in Sessions :
        /\ pc[s] = "exited" /\ user_query[s] = <<"E","X","I","T">> /\ calls[s] = <<>>
        /\ pc[t] = "search_kb" /\ user_query[t] = <<"e","x","i","t","s">>

\* The run of s has left the confirmation node.
AfterConfirm(s) == pc[s] \in {"escalate", "create", "notify", "end"}

\* C11: after Confirm both answers are yes or no; with user_feedback = yes,
\* user_create_incident is no and the incident-creation question was not
\* asked; the question was asked exactly when user_feedback = no.
C11_ConfirmAnswers ==
    \A s \in Sessions :
        AfterConfirm(s) =>
            /\ state[s].user_feedback \in {Some("yes"), Some("no")}
            /\ state[s].user_create_incident \in {Some("yes"), Some("no")}
            /\ state[s].user_feedback = Some("yes") =>
                   state[s].user_create_incident = Some("no")
            /\ ("ask_create" \in shown[s]) <=> (state[s].user_feedback = Some("no"))
            /\ "ask_resolved" \in shown[s]

\* One run answered yes (second question not asked), another answered no and
\* then declined the incident.
C11_Witness ==
    \E s, t \in Sessions :
        /\ pc[s] = "escalate" /\ state[s].user_feedback = Some("yes")
        /\ "ask_create" \notin shown[s]
        /\ pc[t] = "escalate" /\ state[t].user_feedback = Some("no")
        /\ state[t].user_create_incident = Some("no") /\ "ask_create" \in shown[t]

\* C15: the 14 digits of a created incident's number denote the second of
\* its opened field.
C15_NumberMatchesOpened ==
    \A r \in incidents :
        r.number = <<"I", "N", "C">> \o StampOfSecond(r.opened.sec)

\* C16: a run calls the notification at most once, and only after its own
\* create_incident call has succeeded.
C16_NotifyOnlyAfterInsert ==
    \A s \in Sessions :
        /\ Cardinality(CallsOf(s, "email_send_mock")) <= 1
        /\ \A i \in CallsOf(s, "email_send_mock") :
             \E j \in 1..(i - 1) : calls[s][j] = <<"create_incident", "success">>

\* A run whose insert succeeded has its notification call answered with success.
NotifiesCreated(s) ==
    /\ pc[s] = "notify"
    /\ InsertSucceeded(s)
    /\ Len(calls'[s]) = Len(calls[s]) + 1
    /\ Last(calls'[s]) = <<"email_send_mock", "success">>

C17_OriginalStep ==
    \A s \in Sessions :
        NotifiesCreated(s) =>
            \E r \in incidents :
                /\ r.number = local[s].incident_number
                /\ outbox' = outbox \cup
                     { [ to |-> <<"support@example.com">>, cc |-> <<>>, bcc |-> <<>>,
                         subject |-> <<"New Incident ", r.number>>,
                         body |-> <<r.short_description, "\n\n", r.description>> ] }

\* C17 as claimed: the mail for a created incident has subject "New Incident "
\* + the number of the inserted record and a body that is the record's
\* short_description, a blank line and its description, nothing else.
C17_BodyIsTextsOnly == [][C17_OriginalStep]_vars

C17_AmendedStep ==
    \A s \in Sessions :
        NotifiesCreated(s) =>
            \E r \in incidents :
                /\ r.number = local[s].incident_number
                /\ outbox' = outbox \cup
                     { [ to |-> <<"support@example.com">>, cc |-> <<>>, bcc |-> <<>>,
                         subject |-> <<"New Incident ", r.number>>,
                         body |-> <<"Issue reported: ", r.short_description,
                                    "\n\n", r.description>> ] }

\* C17 amended: the mail for a created incident has subject "New Incident "
\* + the number of the inserted record and the body "Issue reported: "
\* followed by the record's short_description, a blank line and its description.
C17_BodyWithPrefix == [][C17_AmendedStep]_vars

\* A run inserted its record and the mail about it is in the outbox.
C17_Witness ==
    \E s \in Sessions :
        /\ pc[s] = "end"
        /\ Len(calls[s]) = 5
        /\ calls[s][4] = <<"create_incident", "success">>
        /\ calls[s][5] = <<"email_send_mock", "success">>
        /\ state[s].incident_number # None
        /\ \E m \in outbox : m.subject = <<"New Incident ", state[s].incident_number[1]>>

\* C19: a run starts from a state that holds only the new query, and every
\* other field it carries was written by this run: nothing before the
\* resolver returns, only the resolver's three fields before the answers are
\* given, no incident_number before this run's own escalation sets it.
C19_FreshRunState ==
    \A s \in Sessions :
        /\ pc[s] \in {"search_kb", "search_inc", "summarize"} =>
             state[s] = [ user_query |-> user_query[s],
                          kb_results |-> None, incident_results |-> None,
                          user_feedback |-> None, user_create_incident |-> None,
                          incident_number |-> None, final_response |-> None ]
        /\ pc[s] = "confirm" =>
             /\ state[s].user_feedback = None
             /\ state[s].user_create_incident = None
             /\ state[s].kb_results # None
             /\ state[s].kb_results[1] \in
                    search_knowledge_base(kbTable, Some(user_query[s]), 5)
        /\ pc[s] \in {"confirm", "escalate", "create", "notify"} =>
             /\ state[s].user_query = user_query[s]
             /\ state[s].incident_number = None
             /\ state[s].final_response = Some(<<"summary">>)
        /\ (pc[s] = "end" /\ CallsOf(s, "create_incident") = {}) =>
             state[s].incident_number = None

\* A session that has completed a run in which it created an incident has
\* started its next run.
C19_Witness ==
    \E s \in Sessions :
        /\ pc[s] = "search_kb"
        /\ started = 2
        /\ \A t \in Sessions \ {s} : pc[t] = "prompt" /\ state[t] = NoState
        /\ incidents # {}
        /\ state[s].incident_number = None

\* C20: a completed run has incident_number set exactly when its
\* final_response is "Incident <that number> created."; the number is INC
\* followed by 14 digits and a record with that number is in the table; a run
\* that ended otherwise has no incident_number.
C20_DoneStateConsistent ==
    \A s \in Sessions :
        pc[s] = "end" =>
            IF state[s].incident_number # None
            THEN LET n == state[s].incident_number[1]
                 IN  /\ state[s].final_response = Some(<<"Incident ", n, " created.">>)
                     /\ Len(n) = 17
                     /\ SubSeq(n, 1, 3) = <<"I", "N", "C">>
                     /\ \A i \in 4..17 : \E d \in 1..10 : DigitChars[d] = n[i]
                     /\ \E r \in incidents : r.number = n
            ELSE /\ state[s].final_response \in
                        { Some(<<"No incident created. Issue remains unresolved.">>),
                          Some(<<"Glad it helped! No escalation needed.">>) }
                 /\ CallsOf(s, "create_incident") = {}

\* ---------------------------------------------------------------- search properties
\* The table the served request was answered from.
ServedTable ==
    IF served[1].tool = "search_knowledge_base" THEN kbTable ELSE incidents

\* Recency of a row of that table: updated for articles, opened for incidents.
ServedRecency(row) ==
    IF served[1].tool = "search_knowledge_base"
    THEN row.updated
    ELSE row.opened.sec * TicksPerSecond + row.opened.frac

\* The answer is in descending recency order.
ServedDescending ==
    \A i, j \in 1..Len(served[1].result) :
        i < j => ServedRecency(served[1].result[i]) >= ServedRecency(served[1].result[j])

\* The tokens of a fragment list as the specification describes them: each
\* fragment lowercased, stopwords dropped, order kept, repetitions kept.
RECURSIVE TokensOf(_)
TokensOf(fragments) ==
    IF fragments = <<>> THEN <<>>
    ELSE LET f == Lower(Head(fragments))
         IN  (IF f = <<>> \/ f \in STOPWORDS THEN <<>> ELSE <<f>>)
                 \o TokensOf(Tail(fragments))

ClaimTokens(query) == IF query = None THEN <<>> ELSE TokensOf(Split(query[1]))

\* C12: a search never returns more than limit records.
C12_AtMostLimit ==
    served # None => Len(served[1].result) <= served[1].limit

\* An unfiltered search over a table of three rows returned exactly limit rows.
C12_Witness ==
    /\ served # None
    /\ served[1].query = None
    /\ Cardinality(ServedTable) = 3
    /\ Len(served[1].result) = served[1].limit

\* C13: with a non-empty token list, every returned record contains a token
\* as a case-insensitive substring of its short_description, the answer is in
\* descending recency order, and every matching record with fewer than limit
\* other matching records at least as recent is in the answer.
C13_SubstringMatch ==
    (served # None /\ ClaimTokens(served[1].query) # <<>>) =>
        LET tokens == ClaimTokens(served[1].query)
            result == served[1].result
            Matching(r) == \E k \in 1..Len(tokens) :
                              Contains(Lower(r.short_description), tokens[k])
        IN  /\ \A i \in 1..Len(result) : Matching(result[i])
            /\ ServedDescending
            /\ \A r \in ServedTable :
                 ( /\ Matching(r)
                   /\ Cardinality({ o \in ServedTable \ {r} :
                                      Matching(o) /\ ServedRecency(o) >= ServedRecency(r) })
                        < served[1].limit )
                   => \E i \in 1..Len(result) : result[i] = r

\* The query is made of stopwords and whitespace only (or is empty).
StopwordsOnly(query) ==
    /\ query # None
    /\ \A i \in 1..Len(Split(query[1])) : Lower(Split(query[1])[i]) \in STOPWORDS

\* C14: for a query of stopwords and whitespace only, no filter is built and
\* the answer is the limit most recent rows of the table: min(limit, rows)
\* different rows, in descending recency, none older than a row left out.
C14_StopwordsOnlyUnfiltered ==
    (served # None /\ StopwordsOnly(served[1].query)) =>
        LET result == served[1].result
        IN  /\ served[1].like = <<>>
            /\ Len(result) = IF served[1].limit <= Cardinality(ServedTable)
                             THEN served[1].limit ELSE Cardinality(ServedTable)
            /\ \A i \in 1..Len(result) : result[i] \in ServedTable
            /\ \A i, j \in 1..Len(result) : i # j => result[i] # result[j]
            /\ ServedDescending
            /\ \A r \in ServedTable :
                 (\A i \in 1..Len(result) : result[i] # r) =>
                     \A i \in 1..Len(result) : ServedRecency(r) <= ServedRecency(result[i])

\* "The" was asked of a knowledge base of three rows with limit 2.
C14_Witness ==
    /\ served # None
    /\ served[1].tool = "search_knowledge_base"
    /\ served[1].query = Some(<<"T","h","e">>)
    /\ Cardinality(kbTable) = 3
    /\ Len(served[1].result) = 2

\* C18: for either search tool the keywords behind the LIKE parameters are
\* the claimed function of the query text alone - fragments between
\* whitespace, lowercased, the 16 stopwords dropped, order and repetitions
\* kept - whatever the tables and the limit are.
C18_TokensByQueryOnly ==
    /\ Cardinality(STOPWORDS) = 16
    /\ served # None =>
         /\ Len(served[1].like) = Len(ClaimTokens(served[1].query))
         /\ \A i \in 1..Len(served[1].like) :
                served[1].like[i] = <<"%">> \o ClaimTokens(served[1].query)[i] \o <<"%">>

\* search_incidents was asked "vpn the vpn" and built two LIKE parameters.
C18_Witness ==
    /\ served # None
    /\ served[1].tool = "search_incidents"
    /\ served[1].query = Some(<<"v","p","n"," ","t","h","e"," ","v","p","n">>)
    /\ served[1].like = << <<"%","v","p","n","%">>, <<"%","v","p","n","%">> >>

====
